---------------------------- MODULE Spec2Model ----------------------------
(***************************************************************************)
(* Model of the notify repository: the Firestore-backed PokeStore          *)
(* (src/storage.go), the data types (src/type.go) and the tunnels with the *)
(* LogWrapper decorator (src/unnamed/part_000).                            *)
(*                                                                         *)
(* Identifiers are modelled as naturals: 0 is Go's empty string (the zero  *)
(* value of Poke.ID), 1..MaxPokes are the auto-ids handed out by           *)
(* CollectionRef.Add / NewDoc.  Times are naturals, `now` is the clock     *)
(* read by time.Now().                                                     *)
(*                                                                         *)
(* A Firestore transaction (Client.RunTransaction) runs its function,      *)
(* which reads documents and buffers writes, and then commits the buffered *)
(* writes atomically.  A commit that meets contention ends Aborted and the *)
(* function is run again (at most MaxAttempts times); any other failure,   *)
(* and an error returned by the function, rolls the transaction back.      *)
(***************************************************************************)
EXTENDS Naturals, Sequences, FiniteSets

\* ------------------------------------------------------------------ bounds
MaxPokes == 2
MaxRecs == 2
MaxTime == 2
MaxAttempts == 2

\* ---------------------------------------------------------------- constants
ListLimit == 1000

Procs == {1, 2}
Times == 0 .. MaxTime
AutoIDs == 1 .. MaxPokes
EmptyID == 0

\* src/type.go:8-12
TypeSMS == "sms"
TypeEmail == "email"

\* src/type.go:16-24
StatusQueued == "Queued"
StatusDelivered == "Delivered"
StatusUndelivered == "Undelievered"
StatusFailed == "Failed"
StatusError == "Error"

\* The collection LogWrapper.Send writes to (part_000:220) and another name
\* that NewFirePokeStore may be given for its record collection.
RecordPath == "service/notify/record"
RecCols == {RecordPath, "record"}

\* ------------------------------------------------------------------- errors
NoErr == [cause |-> "nil", errFunc |-> "", where |-> <<>>]
\* firePokeStoreErr{storeErr, errFunc, where}
StoreErr(cause, f, where) == [cause |-> cause, errFunc |-> f, where |-> where]
\* an error returned unwrapped
RawErr(cause) == [cause |-> cause, errFunc |-> "", where |-> <<>>]

\* ------------------------------------------------------------------- pokes
\* Poke struct.  ID carries the tag firestore:"-": it is not stored.
MkPoke(id, tn, to, su, bo, ds, ex) ==
    [ID |-> id, Tunnel |-> tn, To |-> to, Subject |-> su, Body |-> bo,
     DateToSend |-> ds, Expiry |-> ex]

\* the document Firestore stores for a Poke
PokeDoc(p) ==
    [tunnel |-> p.Tunnel, to |-> p.To, subject |-> p.Subject, body |-> p.Body,
     date_to_send |-> p.DateToSend, expiry |-> p.Expiry]

\* DocumentSnapshot.DataTo followed by p.ID = ref.ID
PokeOf(id, d) ==
    MkPoke(id, d.tunnel, d.to, d.subject, d.body, d.date_to_send, d.expiry)

\* the pokes a producer hands to Create and Update (input ID still empty)
PokeInputs ==
    { MkPoke(EmptyID, TypeSMS, "+1555", "", "hi", 0, 1),
      MkPoke(EmptyID, TypeEmail, "a@b", "s", "yo", 2, 0) }

\* After with the comparison not strict
AfterOrEqual(t, u) == t >= u

\* time.Time.After
After(t, u) == t > u

\* ------------------------------------------------------------------- state
VARIABLES
    pokes,      \* s.pokeCol: auto-id -> poke document
    archive,    \* s.archiveCol: id -> archived document
    recs,       \* record collections by name: name -> set of record documents
    recCol,     \* the name s.recCol was constructed with
    nextID,     \* number of poke auto-ids handed out
    nextRec,    \* number of record auto-ids handed out
    now,        \* the clock
    pr,         \* per caller: the call in flight with its local variables, or
                \* (pc = "idle") what the caller's most recent call returned
    sent,       \* message id -> number of calls of the wrapped tunnel's Send
    stderr      \* what was written to os.Stderr

vars == <<pokes, archive, recs, recCol, nextID, nextRec, now, pr, sent, stderr>>

\* op, ids, poke, t: the call and its arguments; attempt, rd, sends, werr: the
\* locals of a transaction in flight; err, out, arc, rec, recs: what is returned;
\* hit: the documents of the active collection a committed transaction wrote;
\* env, tried: what a bare tunnel met and how often it called its provider
Idle ==
    [op |-> "none", pc |-> "idle", ids |-> <<>>, poke |-> <<>>, t |-> 0,
     attempt |-> 0, rd |-> <<>>, sends |-> 0, werr |-> <<>>,
     err |-> NoErr, out |-> <<>>, arc |-> <<>>, rec |-> <<>>, recs |-> {}, hit |-> {},
     env |-> <<>>, tried |-> 0]

\* the state NewFirePokeStore and NewLogWrapperTunnel leave, with the name
\* the store was given for its record collection
InitWith(names, times) ==
    /\ pokes = <<>>
    /\ archive = <<>>
    /\ recCol \in names
    /\ recs = [c \in RecCols |-> {}]
    /\ nextID = 0
    /\ nextRec = 0
    /\ now \in times
    /\ pr = [p \in Procs |-> Idle]
    /\ sent = [m \in {} |-> 0]
    /\ stderr = <<>>

\* the poke operations never touch the record collection
Init == InitWith({RecordPath}, {0})

\* the decorator is exercised at any one instant
InitSend == InitWith(RecCols, Times)

\* ---------------------------------------------------------- collection ops
Exists(col, id) == id \in DOMAIN col
Put(col, id, d) == [i \in DOMAIN col \cup {id} |-> IF i = id THEN d ELSE col[i]]
Remove(col, ids) == [i \in DOMAIN col \ ids |-> col[i]]
Range(s) == {s[i] : i \in DOMAIN s}

\* the clock advances
Tick ==
    /\ now < MaxTime
    /\ now' = now + 1
    /\ UNCHANGED <<pokes, archive, recs, recCol, nextID, nextRec, pr, sent, stderr>>

\* the call of p returns r
Return(p, r) == pr' = [pr EXCEPT ![p] = r]

\* ------------------------------------------------------------------ Create
\* Create that hands out the lowest id the active collection does not hold
CreateReusingID(p) ==
    /\ pr[p].pc = "idle"
    /\ nextID < MaxPokes
    /\ \E in \in PokeInputs :
        LET free == AutoIDs \ DOMAIN pokes
            id == CHOOSE i \in free : \A j \in free : i <= j
        IN  /\ nextID' = nextID + 1
            /\ pokes' = Put(pokes, id, PokeDoc(in))
            /\ Return(p, [Idle EXCEPT !.op = "create", !.poke = <<in>>,
                                       !.out = <<[in EXCEPT !.ID = id]>>])
    /\ UNCHANGED <<archive, recs, recCol, nextRec, now, sent, stderr>>

\* firePokeStore.Create: pokeCol.Add, then p.ID = docRef.ID
Create(p) ==
    /\ pr[p].pc = "idle"
    /\ \E in \in PokeInputs, fails \in BOOLEAN :
        IF fails
        THEN /\ Return(p, [Idle EXCEPT !.op = "create", !.poke = <<in>>,
                                        !.err = StoreErr("unavailable", "create", <<in.ID>>)])
             /\ UNCHANGED <<pokes, nextID>>
        ELSE /\ nextID < MaxPokes
             /\ nextID' = nextID + 1
             /\ pokes' = Put(pokes, nextID + 1, PokeDoc(in))
             /\ Return(p, [Idle EXCEPT !.op = "create", !.poke = <<in>>,
                                        !.out = <<[in EXCEPT !.ID = nextID + 1]>>])
    /\ UNCHANGED <<archive, recs, recCol, nextRec, now, sent, stderr>>

\* ------------------------------------------------------------ transactions
\* the id lists a caller passes to Delete, Get and DeleteArchived
IDLists ==
    {<<a>> : a \in AutoIDs} \cup {s \in AutoIDs \X AutoIDs : s[1] # s[2]}

\* a buffered write of a transaction
Write(kind, col, id, d) == [kind |-> kind, col |-> col, id |-> id, doc |-> d]

Col(name) == IF name = "poke" THEN pokes ELSE archive

RECURSIVE ApplyWrites(_, _, _)
\* the collection `name` after the buffered writes ws, in order
ApplyWrites(col, name, ws) ==
    IF ws = <<>> THEN col
    ELSE LET w == Head(ws)
             c == IF w.col # name THEN col
                  ELSE IF w.kind = "delete" THEN Remove(col, {w.id})
                  ELSE Put(col, w.id, w.doc)
         IN  ApplyWrites(c, name, Tail(ws))

\* tx.Create carries the precondition that the document does not exist
PreconditionsHold(ws) ==
    \A i \in DOMAIN ws : ws[i].kind = "create" => ~Exists(Col(ws[i].col), ws[i].id)

\* ReadsValid of a store without isolation
ReadsValidAlways(p) == TRUE

\* the document read by tx.Get is unchanged at commit (isolation)
ReadsValid(p) ==
    IF pr[p].rd = <<>> THEN TRUE
    ELSE IF Exists(pokes, pr[p].ids[1]) THEN pokes[pr[p].ids[1]] = pr[p].rd[1]
    ELSE FALSE

CallTx(p, op, ids, poke, t) ==
    /\ pr[p].pc = "idle"
    /\ pr' = [pr EXCEPT ![p] = [Idle EXCEPT !.op = op, !.pc = "body", !.ids = ids,
                                            !.poke = poke, !.t = t, !.attempt = 1]]
    /\ UNCHANGED <<pokes, archive, recs, recCol, nextID, nextRec, now, sent, stderr>>

\* what a call in flight reports when it returns
Result(p) ==
    [Idle EXCEPT !.op = pr[p].op, !.ids = pr[p].ids, !.poke = pr[p].poke,
                 !.t = pr[p].t, !.rd = pr[p].rd]

\* RunTransaction's commit of the buffered writes ws.  okRes is returned when
\* the commit succeeds, fn names the operation in the wrapped error.
Commit(p, ws, okRes, fn) ==
    \E outcome \in {"ok", "aborted", "unavailable"} :
        CASE outcome = "ok" ->
                /\ ReadsValid(p)
                /\ IF PreconditionsHold(ws)
                   THEN /\ pokes' = ApplyWrites(pokes, "poke", ws)
                        /\ archive' = ApplyWrites(archive, "archive", ws)
                        /\ Return(p, [okRes EXCEPT !.hit =
                               {ws[i].id : i \in {j \in DOMAIN ws : ws[j].col = "poke"}}
                                   \cap DOMAIN pokes])
                   ELSE /\ UNCHANGED <<pokes, archive>>
                        /\ Return(p, [Result(p) EXCEPT !.err = StoreErr("alreadyexists", fn, pr[p].ids)])
          [] outcome = "aborted" ->
                /\ UNCHANGED <<pokes, archive>>
                /\ IF pr[p].attempt < MaxAttempts
                   THEN /\ pr' = [pr EXCEPT ![p].pc = "body", ![p].attempt = @ + 1,
                                            ![p].rd = <<>>]
                   ELSE Return(p, [Result(p) EXCEPT !.err = StoreErr("aborted", fn, pr[p].ids)])
          [] outcome = "unavailable" ->
                /\ ReadsValid(p)
                /\ UNCHANGED <<pokes, archive>>
                /\ Return(p, [Result(p) EXCEPT !.err = StoreErr("unavailable", fn, pr[p].ids)])

\* the function of the transaction returns an error: rollback, no retry
Rollback(p, e) ==
    /\ Return(p, [Result(p) EXCEPT !.err = e])
    /\ UNCHANGED <<pokes, archive>>

ToCommit(p, rd) ==
    /\ pr' = [pr EXCEPT ![p].pc = "commit", ![p].rd = rd]
    /\ UNCHANGED <<pokes, archive>>

Frame == UNCHANGED <<recs, recCol, nextID, nextRec, now, sent, stderr>>

\* ------------------------------------------------------------------ Delete
DeleteErr(p, cause) == StoreErr(cause, "delete", pr[p].ids)

\* DeleteWrites with the loop left after its first id
DeleteWritesFirst(ids) == <<Write("delete", "poke", ids[1], <<>>)>>

\* one tx.Delete per id, in order, no precondition
DeleteWrites(ids) == [i \in DOMAIN ids |-> Write("delete", "poke", ids[i], <<>>)]

DeleteCall(p) == \E ids \in IDLists : CallTx(p, "delete", ids, <<>>, 0)

DeleteBody(p) ==
    /\ pr[p].op = "delete" /\ pr[p].pc = "body"
    /\ \E fails \in BOOLEAN :
        IF fails THEN Rollback(p, DeleteErr(p, "local")) ELSE ToCommit(p, <<>>)
    /\ Frame

DeleteCommit(p) ==
    /\ pr[p].op = "delete" /\ pr[p].pc = "commit"
    /\ Commit(p, DeleteWrites(pr[p].ids), Result(p), "delete")
    /\ Frame

\* ------------------------------------------------------------------ Update
UpdateErr(p, cause) == StoreErr(cause, "update", pr[p].ids)

UpdateWrites(po) == <<Write("set", "poke", po.ID, PokeDoc(po))>>

UpdateCall(p) ==
    \E in \in PokeInputs, id \in AutoIDs :
        CallTx(p, "update", <<id>>, <<[in EXCEPT !.ID = id]>>, 0)

\* UpdateBody without the read of the document before the write
UpdateBodyNoGet(p) ==
    /\ pr[p].op = "update" /\ pr[p].pc = "body"
    /\ ToCommit(p, <<>>)
    /\ Frame

\* tx.Get(ref) and its error (not found included), then tx.Set(ref, p)
UpdateBody(p) ==
    /\ pr[p].op = "update" /\ pr[p].pc = "body"
    /\ LET id == pr[p].ids[1] IN
       \E fails \in {"none", "get", "set"} :
        IF ~Exists(pokes, id) THEN Rollback(p, UpdateErr(p, "notfound"))
        ELSE IF fails = "get" THEN Rollback(p, UpdateErr(p, "unavailable"))
        ELSE IF fails = "set" THEN Rollback(p, UpdateErr(p, "local"))
        ELSE ToCommit(p, <<pokes[id]>>)
    /\ Frame

UpdateCommit(p) ==
    /\ pr[p].op = "update" /\ pr[p].pc = "commit"
    /\ Commit(p, UpdateWrites(pr[p].poke[1]),
              [Result(p) EXCEPT !.out = pr[p].poke], "update")
    /\ Frame

\* ----------------------------------------------------------------- Archive
\* ArchivedPoke struct.  ID carries the tag firestore:"-": it is not stored.
MkArchived(id, tn, to, ex) == [ID |-> id, Tunnel |-> tn, To |-> to, Expired |-> ex]
ArchivedDoc(a) == [tunnel |-> a.Tunnel, to |-> a.To, expired |-> a.Expired]

ArchiveErr(p, cause) == StoreErr(cause, "archive", pr[p].ids)

\* a = &ArchivedPoke{Tunnel, To, Expired: t.After(p.Expiry)}: ID is left empty
ArchivedOf(po, t) == MkArchived(EmptyID, po.Tunnel, po.To, After(t, po.Expiry))

\* ArchiveWrites without the delete of the live poke
ArchiveWritesNoDelete(id, a) == <<Write("create", "archive", id, ArchivedDoc(a))>>

\* tx.Create(arcRef, a) and tx.Delete(pokeRef)
ArchiveWrites(id, a) ==
    <<Write("create", "archive", id, ArchivedDoc(a)), Write("delete", "poke", id, <<>>)>>

\* t := time.Now() is read before the transaction starts
ArchiveCall(p) == \E id \in AutoIDs : CallTx(p, "archive", <<id>>, <<>>, now)

ArchiveBody(p) ==
    /\ pr[p].op = "archive" /\ pr[p].pc = "body"
    /\ LET id == pr[p].ids[1] IN
       \E fails \in {"none", "get", "datato", "create", "delete"} :
        IF ~Exists(pokes, id) THEN Rollback(p, ArchiveErr(p, "notfound"))
        ELSE IF fails = "get" THEN Rollback(p, ArchiveErr(p, "unavailable"))
        ELSE IF fails = "datato" THEN Rollback(p, ArchiveErr(p, "unmarshal"))
        ELSE IF fails \in {"create", "delete"} THEN Rollback(p, ArchiveErr(p, "local"))
        ELSE ToCommit(p, <<pokes[id]>>)
    /\ Frame

\* ArchiveCommit that writes what it read, unconditionally
ArchiveCommitBlind(p) ==
    /\ pr[p].op = "archive" /\ pr[p].pc = "commit"
    /\ LET id == pr[p].ids[1]
           a == ArchivedOf(PokeOf(id, pr[p].rd[1]), pr[p].t)
       IN  /\ archive' = Put(archive, id, ArchivedDoc(a))
           /\ pokes' = Remove(pokes, {id})
           /\ Return(p, [Result(p) EXCEPT !.arc = <<a>>])
    /\ Frame

ArchiveCommit(p) ==
    /\ pr[p].op = "archive" /\ pr[p].pc = "commit"
    /\ LET id == pr[p].ids[1]
           a == ArchivedOf(PokeOf(id, pr[p].rd[1]), pr[p].t)
       IN  Commit(p, ArchiveWrites(id, a), [Result(p) EXCEPT !.arc = <<a>>], "archive")
    /\ Frame

\* ---------------------------------------------------------- DeleteArchived
DeleteArchivedErr(p, cause) == StoreErr(cause, "delete archived", pr[p].ids)

DeleteArchivedWrites(ids) ==
    [i \in DOMAIN ids |-> Write("delete", "archive", ids[i], <<>>)]

DeleteArchivedCall(p) == \E ids \in IDLists : CallTx(p, "deleteArchived", ids, <<>>, 0)

DeleteArchivedBody(p) ==
    /\ pr[p].op = "deleteArchived" /\ pr[p].pc = "body"
    /\ \E fails \in BOOLEAN :
        IF fails THEN Rollback(p, DeleteArchivedErr(p, "local")) ELSE ToCommit(p, <<>>)
    /\ Frame

DeleteArchivedCommit(p) ==
    /\ pr[p].op = "deleteArchived" /\ pr[p].pc = "commit"
    /\ Commit(p, DeleteArchivedWrites(pr[p].ids), Result(p), "delete archived")
    /\ Frame

\* --------------------------------------------------------------------- Get
GetCall(p) == \E ids \in IDLists : CallTx(p, "get", ids, <<>>, 0)

\* GetStep that hands back the pokes read so far when an id is missing
GetStepPartial(p) ==
    /\ pr[p].op = "get" /\ pr[p].pc = "body"
    /\ LET i == Len(pr[p].out) + 1
           id == pr[p].ids[i]
       IN  IF ~Exists(pokes, id)
           THEN Return(p, [Result(p) EXCEPT !.out = pr[p].out])
           ELSE IF i = Len(pr[p].ids)
           THEN Return(p, [Result(p) EXCEPT !.out = Append(pr[p].out, PokeOf(id, pokes[id]))])
           ELSE pr' = [pr EXCEPT ![p].out = Append(@, PokeOf(id, pokes[id]))]
    /\ UNCHANGED <<pokes, archive>>
    /\ Frame

\* one iteration of the loop: pokeCol.Doc(id).Get, DataTo, p.ID = d.Ref.ID
GetStep(p) ==
    /\ pr[p].op = "get" /\ pr[p].pc = "body"
    /\ LET i == Len(pr[p].out) + 1
           id == pr[p].ids[i]
       IN  \E fails \in {"none", "get", "datato"} :
            IF ~Exists(pokes, id)
            THEN Return(p, [Result(p) EXCEPT !.err = StoreErr("notfound", "get", pr[p].ids)])
            ELSE IF fails = "get"
            THEN Return(p, [Result(p) EXCEPT !.err = StoreErr("unavailable", "get", pr[p].ids)])
            ELSE IF fails = "datato"
            THEN Return(p, [Result(p) EXCEPT !.err = StoreErr("unmarshal", "get", <<id>>)])
            ELSE IF i = Len(pr[p].ids)
            THEN Return(p, [Result(p) EXCEPT !.out = Append(pr[p].out, PokeOf(id, pokes[id]))])
            ELSE pr' = [pr EXCEPT ![p].out = Append(@, PokeOf(id, pokes[id]))]
    /\ UNCHANGED <<pokes, archive>>
    /\ Frame

\* ----------------------------------------------------------------- queries
RECURSIVE InOrder(_, _)
\* the ids S as the query returns them: by the filtered field, then by id
InOrder(S, key) ==
    IF S = {} THEN <<>>
    ELSE LET m == CHOOSE a \in S :
                    \A b \in S : key[a] < key[b] \/ (key[a] = key[b] /\ a <= b)
         IN  <<m>> \o InOrder(S \ {m}, key)

\* Query.Limit(n)
Limit(s, n) == IF Len(s) <= n THEN s ELSE SubSeq(s, 1, n)

\* ToSendQuery with the boundary included
ToSendQueryLE(t) ==
    Limit(InOrder({i \in DOMAIN pokes : pokes[i].date_to_send <= t},
                  [i \in DOMAIN pokes |-> pokes[i].date_to_send]), ListLimit)

\* pokeCol.Where("date_to_send", "<", t).Limit(1000)
ToSendQuery(t) ==
    Limit(InOrder({i \in DOMAIN pokes : pokes[i].date_to_send < t},
                  [i \in DOMAIN pokes |-> pokes[i].date_to_send]), ListLimit)

\* ExpiredQuery with the boundary included
ExpiredQueryLE(t) ==
    Limit(InOrder({i \in DOMAIN pokes : pokes[i].expiry <= t},
                  [i \in DOMAIN pokes |-> pokes[i].expiry]), ListLimit)

\* pokeCol.Where("expiry", "<", t).Limit(1000)
ExpiredQuery(t) ==
    Limit(InOrder({i \in DOMAIN pokes : pokes[i].expiry < t},
                  [i \in DOMAIN pokes |-> pokes[i].expiry]), ListLimit)

\* the loop over the documents: DataTo, p.ID = doc.Ref.ID
PokesOf(idseq) == [k \in DOMAIN idseq |-> PokeOf(idseq[k], pokes[idseq[k]])]

\* List that takes the pokes it returns out of the active collection
ListClaiming(p, op, fn, idseq) ==
    /\ pr[p].pc = "idle"
    /\ Return(p, [Idle EXCEPT !.op = op, !.t = now, !.out = PokesOf(idseq)])
    /\ pokes' = Remove(pokes, Range(idseq))
    /\ UNCHANGED archive
    /\ Frame

List(p, op, fn, idseq) ==
    /\ pr[p].pc = "idle"
    /\ \E fails \in {"none", "query", "datato"} :
        LET r == [Idle EXCEPT !.op = op, !.t = now] IN
        IF fails = "query"
        THEN Return(p, [r EXCEPT !.err = StoreErr("unavailable", fn, <<>>)])
        ELSE IF fails = "datato" /\ idseq # <<>>
        THEN Return(p, [r EXCEPT !.err = StoreErr("unmarshal", fn, <<idseq[1]>>)])
        ELSE Return(p, [r EXCEPT !.out = PokesOf(idseq)])
    /\ UNCHANGED <<pokes, archive>>
    /\ Frame

ListToSend(p) == List(p, "listToSend", "list_to_send", ToSendQuery(now))

ListExpired(p) == List(p, "listExpired", "list_expired", ExpiredQuery(now))

\* ----------------------------------------------------------------- records
\* Record struct.  ID carries the tag firestore:"-": it is not stored.
MkRecord(mid, id, st, ts) == [MessageID |-> mid, ID |-> id, Status |-> st, TimeStamp |-> ts]

\* Go's zero Record
ZeroRecord == MkRecord(EmptyID, EmptyID, "", 0)

\* a record document, kept with the auto-id it is stored under
RecordDoc(ref, r) ==
    [id |-> ref, message_id |-> r.MessageID, status |-> r.Status, timestamp |-> r.TimeStamp]

\* DocumentSnapshot.DataTo followed by rec.ID = d.Ref.ID
RecordOf(d) == MkRecord(d.message_id, d.id, d.status, d.timestamp)

\* the pokes handed to Send: they carry the id the store gave them
SendPokes ==
    { MkPoke(1, TypeSMS, "+1555", "", "hi", 0, 1),
      MkPoke(2, TypeEmail, "a@b", "s", "yo", 2, 0) }
SendIDs == {po.ID : po \in SendPokes}

\* recCol.Where("message_id", "=", messageID)
RecordQuery(col, mid) == {d \in recs[col] : d.message_id = mid}

SendFrame == UNCHANGED <<pokes, archive, recCol, nextID, now>>

\* firePokeStore.CreateRecord: recCol.Add, then r.ID = ref.ID
CreateRecord(p) ==
    /\ pr[p].pc = "idle"
    /\ \E mid \in SendIDs, st \in {StatusQueued}, fails \in BOOLEAN :
        LET r == MkRecord(mid, EmptyID, st, now) IN
        IF fails
        THEN /\ Return(p, [Idle EXCEPT !.op = "createRecord", !.ids = <<mid>>,
                                       !.rec = <<ZeroRecord>>, !.err = RawErr("unavailable")])
             /\ UNCHANGED <<recs, nextRec>>
        ELSE /\ nextRec < MaxRecs
             /\ nextRec' = nextRec + 1
             /\ recs' = [recs EXCEPT ![recCol] = @ \cup {RecordDoc(nextRec + 1, r)}]
             /\ Return(p, [Idle EXCEPT !.op = "createRecord", !.ids = <<mid>>,
                                       !.rec = <<[r EXCEPT !.ID = nextRec + 1]>>])
    /\ UNCHANGED <<sent, stderr>>
    /\ SendFrame

\* firePokeStore.GetRecord
GetRecord(p) ==
    /\ pr[p].pc = "idle"
    /\ \E mid \in SendIDs, fails \in {"none", "query", "datato"} :
        LET docs == RecordQuery(recCol, mid)
            r == [Idle EXCEPT !.op = "getRecord", !.ids = <<mid>>]
        IN  IF fails = "query"
            THEN Return(p, [r EXCEPT !.err = StoreErr("unavailable", "GetRecord", <<mid>>)])
            ELSE IF fails = "datato" /\ docs # {}
            THEN Return(p, [r EXCEPT !.err = StoreErr("unmarshal", "GetRecord", <<mid>>)])
            ELSE Return(p, [r EXCEPT !.recs = {RecordOf(d) : d \in docs}])
    /\ UNCHANGED <<recs, nextRec, sent, stderr>>
    /\ SendFrame

\* ----------------------------------------------------------------- tunnels
\* what the provider does when SendSMS is called
SMSOutcomes == {"callerr", "exception", "ok", "okbaddate"}

\* what GMailTunnel.Send meets: whether msg.Bytes() succeeds, whether t.svc is
\* set, and what Users.Messages.Send(...).Do() answers when it is called
GMailOutcomes == [compose : {"ok", "err"}, svc : {"nil", "set"}, do : {"ok", "apierr", "err"}]

\* SMSSend that returns the zero Record when SendSMS fails
SMSSendZeroOnError(po, outcome, t) ==
    CASE outcome = "callerr" ->
            <<MkRecord(EmptyID, EmptyID, StatusError, t), RawErr("sendsms"), 1>>
      [] outcome = "exception" ->
            <<MkRecord(po.ID, EmptyID, "moreinfo", t), RawErr("twilio exception"), 1>>
      [] outcome = "ok" ->
            <<MkRecord(po.ID, EmptyID, "queued", t), NoErr, 1>>
      [] outcome = "okbaddate" ->
            <<MkRecord(po.ID, EmptyID, "queued", t), RawErr("parsetime"), 1>>

\* SMSTunnel.Send: <<record, error, number of calls of the provider>>
SMSSend(po, outcome, t) ==
    CASE outcome = "callerr" ->
            <<MkRecord(po.ID, EmptyID, StatusError, t), RawErr("sendsms"), 1>>
      [] outcome = "exception" ->
            <<MkRecord(po.ID, EmptyID, "moreinfo", t), RawErr("twilio exception"), 1>>
      [] outcome = "ok" ->
            \* the provider's DateUpdate, here the sending time
            <<MkRecord(po.ID, EmptyID, "queued", t), NoErr, 1>>
      [] outcome = "okbaddate" ->
            \* DateUpdateAsTime fails: tm = time.Now(), and err is returned
            <<MkRecord(po.ID, EmptyID, "queued", t), RawErr("parsetime"), 1>>

\* GMailSend without the check of t.svc
GMailSendNoNilCheck(po, outcome, t) ==
    IF outcome.compose = "err"
    THEN <<MkRecord(po.ID, EmptyID, StatusError, t), RawErr("compose"), 0>>
    ELSE IF outcome.do = "apierr"
    THEN <<MkRecord(po.ID, EmptyID, StatusUndelivered, t), RawErr("gmail error"), 1>>
    ELSE IF outcome.do = "err"
    THEN <<MkRecord(po.ID, EmptyID, StatusUndelivered, t), RawErr("send"), 1>>
    ELSE <<MkRecord(po.ID, EmptyID, StatusDelivered, t), NoErr, 1>>

\* GMailTunnel.Send: <<record, error, number of calls of the provider>>
GMailSend(po, outcome, t) ==
    IF outcome.compose = "err"
    THEN <<MkRecord(po.ID, EmptyID, StatusError, t), RawErr("compose"), 0>>
    ELSE IF outcome.svc = "nil"
    THEN <<MkRecord(po.ID, EmptyID, StatusError, t), RawErr("could not get gmail service"), 0>>
    ELSE IF outcome.do = "apierr"
    THEN <<MkRecord(po.ID, EmptyID, StatusUndelivered, t), RawErr("gmail error"), 1>>
    ELSE IF outcome.do = "err"
    THEN <<MkRecord(po.ID, EmptyID, StatusUndelivered, t), RawErr("send"), 1>>
    ELSE <<MkRecord(po.ID, EmptyID, StatusDelivered, t), NoErr, 1>>

\* t.t.Send(p) for the tunnel a LogWrapper wraps
TunnelOutcomes(kind) == IF kind = TypeSMS THEN SMSOutcomes ELSE GMailOutcomes
TunnelSend(kind, po, outcome, t) ==
    IF kind = TypeSMS THEN SMSSend(po, outcome, t) ELSE GMailSend(po, outcome, t)

\* a caller calls Send of a bare tunnel with one of the pokes S it holds
TunnelCall(p, S) ==
    /\ pr[p].pc = "idle"
    /\ \E po \in S : \E outcome \in TunnelOutcomes(po.Tunnel) :
        LET res == TunnelSend(po.Tunnel, po, outcome, now) IN
        Return(p, [Idle EXCEPT !.op = "tunnelSend", !.poke = <<po>>, !.t = now,
                               !.env = <<outcome>>, !.rec = <<res[1]>>,
                               !.err = res[2], !.tried = res[3]])
    /\ UNCHANGED <<pokes, archive, recs, recCol, nextID, nextRec, now, sent, stderr>>

\* -------------------------------------------------------- LogWrapper.Send

\* rec.MessageID = p.ID, then the transaction starts
LogSendCall(p) ==
    /\ pr[p].pc = "idle"
    /\ \E po \in SendPokes :
        pr' = [pr EXCEPT ![p] = [Idle EXCEPT !.op = "send", !.pc = "body", !.poke = <<po>>,
                                             !.attempt = 1,
                                             !.rec = <<MkRecord(po.ID, EmptyID, "", 0)>>]]
    /\ UNCHANGED <<recs, nextRec, sent, stderr>>
    /\ SendFrame

\* the function of the transaction: t.t.Send(p), NewDoc, the error of the
\* send written to os.Stderr, tx.Create(ref, rec)
LogSendBody(p) ==
    /\ pr[p].op = "send" /\ pr[p].pc = "body"
    /\ nextRec < MaxRecs
    /\ LET po == pr[p].poke[1] IN
       \E outcome \in TunnelOutcomes(po.Tunnel), createFails \in BOOLEAN :
        LET res == TunnelSend(po.Tunnel, po, outcome, now)
            q == [pr[p] EXCEPT !.rec = <<res[1]>>, !.werr = <<res[2]>>, !.sends = @ + 1,
                               !.rd = <<nextRec + 1>>]
        IN  /\ sent' = [m \in DOMAIN sent \cup {po.ID} |->
                          IF m = po.ID
                          THEN (IF m \in DOMAIN sent THEN sent[m] ELSE 0) + 1
                          ELSE sent[m]]
            /\ nextRec' = nextRec + 1
            /\ stderr' = IF res[2] # NoErr THEN Append(stderr, res[2].cause) ELSE stderr
            /\ IF createFails
               THEN Return(p, [q EXCEPT !.pc = "idle", !.err = RawErr("local")])
               ELSE pr' = [pr EXCEPT ![p] = [q EXCEPT !.pc = "commit"]]
    /\ UNCHANGED recs
    /\ SendFrame

\* LogSendCommit that keeps one record per message id
LogSendCommitReplace(p) ==
    /\ pr[p].op = "send" /\ pr[p].pc = "commit"
    /\ recs' = [recs EXCEPT ![RecordPath] =
                    {d \in @ : d.message_id # pr[p].rec[1].MessageID}
                        \cup {RecordDoc(pr[p].rd[1], pr[p].rec[1])}]
    /\ Return(p, [pr[p] EXCEPT !.pc = "idle", !.err = NoErr])
    /\ UNCHANGED <<nextRec, sent, stderr>>
    /\ SendFrame

\* the commit of tx.Create(ref, rec), and `return rec, err`
LogSendCommit(p) ==
    /\ pr[p].op = "send" /\ pr[p].pc = "commit"
    /\ \E outcome \in {"ok", "aborted", "unavailable"} :
        CASE outcome = "ok" ->
                /\ recs' = [recs EXCEPT ![RecordPath] =
                                @ \cup {RecordDoc(pr[p].rd[1], pr[p].rec[1])}]
                /\ Return(p, [pr[p] EXCEPT !.pc = "idle", !.err = NoErr])
          [] outcome = "aborted" ->
                /\ UNCHANGED recs
                /\ IF pr[p].attempt < MaxAttempts
                   THEN pr' = [pr EXCEPT ![p].pc = "body", ![p].attempt = @ + 1]
                   ELSE Return(p, [pr[p] EXCEPT !.pc = "idle", !.err = RawErr("aborted")])
          [] outcome = "unavailable" ->
                /\ UNCHANGED recs
                /\ Return(p, [pr[p] EXCEPT !.pc = "idle", !.err = RawErr("unavailable")])
    /\ UNCHANGED <<nextRec, sent, stderr>>
    /\ SendFrame

\* the single caller of the sequential specifications
Main == CHOOSE p \in Procs : \A q \in Procs : p <= q

Next ==
    \/ Tick
    \/ \E p \in {Main} :
        \/ Create(p)
        \/ DeleteCall(p)
        \/ DeleteBody(p)
        \/ DeleteCommit(p)
        \/ UpdateCall(p)
        \/ UpdateBody(p)
        \/ UpdateCommit(p)
        \/ ArchiveCall(p)
        \/ ArchiveBody(p)
        \/ ArchiveCommit(p)
        \/ DeleteArchivedCall(p)
        \/ DeleteArchivedBody(p)
        \/ DeleteArchivedCommit(p)
        \/ GetCall(p)
        \/ GetStep(p)
        \/ ListToSend(p)
        \/ ListExpired(p)

Spec == Init /\ [][Next]_vars

\* the decorator and the record operations of the store
NextSend ==
    \E p \in {Main} :
        \/ CreateRecord(p)
        \/ GetRecord(p)
        \/ LogSendCall(p)
        \/ LogSendBody(p)
        \/ LogSendCommit(p)

SpecSend == InitSend /\ [][NextSend]_vars

\* a store that holds the pokes handed to Send and, by CreateRecord, a first
\* record of one of them
InitAudit ==
    /\ pokes = [i \in SendIDs |-> PokeDoc(CHOOSE po \in SendPokes : po.ID = i)]
    /\ archive = <<>>
    /\ recCol = RecordPath
    /\ \E mid \in SendIDs :
        recs = [c \in RecCols |->
                  IF c = RecordPath
                  THEN {RecordDoc(1, MkRecord(mid, EmptyID, StatusQueued, 0))}
                  ELSE {}]
    /\ nextID = Cardinality(SendIDs)
    /\ nextRec = 1
    /\ now = 0
    /\ pr = [p \in Procs |-> Idle]
    /\ sent = [m \in {} |-> 0]
    /\ stderr = <<>>

\* the pokes are sent, recorded, archived and deleted
NextAudit ==
    \E p \in {Main} :
        \/ CreateRecord(p)
        \/ GetRecord(p)
        \/ LogSendCall(p)
        \/ LogSendBody(p)
        \/ LogSendCommit(p)
        \/ ArchiveCall(p)
        \/ ArchiveBody(p)
        \/ ArchiveCommit(p)
        \/ DeleteCall(p)
        \/ DeleteBody(p)
        \/ DeleteCommit(p)

SpecAudit == InitAudit /\ [][NextAudit]_vars

\* a store that holds two pokes, at any one instant
InitRace ==
    /\ pokes = [i \in SendIDs |-> PokeDoc(CHOOSE po \in SendPokes : po.ID = i)]
    /\ archive = <<>>
    /\ recCol = RecordPath
    /\ recs = [c \in RecCols |-> {}]
    /\ nextID = Cardinality(SendIDs)
    /\ nextRec = 0
    /\ now \in Times
    /\ pr = [p \in Procs |-> Idle]
    /\ sent = [m \in {} |-> 0]
    /\ stderr = <<>>

\* two callers update and archive the pokes concurrently
NextRace ==
    \E p \in Procs :
        \/ UpdateCall(p)
        \/ UpdateBody(p)
        \/ UpdateCommit(p)
        \/ ArchiveCall(p)
        \/ ArchiveBody(p)
        \/ ArchiveCommit(p)

SpecRace == InitRace /\ [][NextRace]_vars

\* two callers archive the pokes concurrently while the clock advances
NextArchive ==
    \/ Tick
    \/ \E p \in Procs :
        \/ ArchiveCall(p)
        \/ ArchiveBody(p)
        \/ ArchiveCommit(p)

SpecArchive == InitRace /\ [][NextArchive]_vars

\* the pokes a caller holds to send: those its ListToSend has just returned
Held(p) == IF pr[p].op = "listToSend" /\ pr[p].pc = "idle" THEN Range(pr[p].out) ELSE {}

\* two callers list the pokes to send, send them and archive them
NextDispatch ==
    \E p \in Procs :
        \/ ListToSend(p)
        \/ TunnelCall(p, Held(p))
        \/ ArchiveCall(p)
        \/ ArchiveBody(p)
        \/ ArchiveCommit(p)

SpecDispatch == InitRace /\ [][NextDispatch]_vars

\* the bare tunnels, called by any caller at any one instant
NextTunnel == \E p \in Procs : TunnelCall(p, SendPokes)

SpecTunnel == InitSend /\ [][NextTunnel]_vars

\* ------------------------------------------------------------------ claims
\* p takes a step of its call of op
Steps(p, op) == pr[p].op = op /\ pr[p].pc # "idle" /\ pr'[p] # pr[p]
\* this step is the return of p's call
Returns(p) == pr[p].pc # "idle" /\ pr'[p].pc = "idle"
ReturnsOK(p) == Returns(p) /\ pr'[p].err = NoErr
\* p's most recent call was of op and has returned
Returned(p, op) == pr[p].op = op /\ pr[p].pc = "idle"

\* the records of message mid in the decorator's collection
Persisted(mid) == {d \in recs[RecordPath] : d.message_id = mid}

\* C1: every step of an Archive(id) call, whatever its outcome, either leaves
\* the active and the archive collection exactly as they were (and, if it is
\* the return, reports an error), or removes the poke id from the active
\* collection and adds an archived poke with that id, nothing else changed,
\* and returns success.
C1_ArchiveAtomic ==
    [][\A p \in Procs : Steps(p, "archive") =>
        LET id == pr[p].ids[1] IN
        \/ /\ pokes' = pokes
           /\ archive' = archive
           /\ ~ReturnsOK(p)
        \/ /\ ReturnsOK(p)
           /\ Exists(pokes, id) /\ ~Exists(archive, id)
           /\ ~Exists(pokes', id) /\ Exists(archive', id)
           /\ pokes' = Remove(pokes, {id})
           /\ Remove(archive', {id}) = archive]_vars

\* an Archive has succeeded: the poke is gone and its archived copy exists
C1_Witness ==
    /\ Returned(Main, "archive") /\ pr[Main].err = NoErr
    /\ ~Exists(pokes, pr[Main].ids[1])
    /\ Exists(archive, pr[Main].ids[1])

\* C2 (as stated): a Delete that lists an id missing from the active
\* collection leaves the collection untouched.
C2_MissingIdRollsBack ==
    [][\A p \in Procs :
        (Steps(p, "delete") /\ \E i \in Range(pr[p].ids) : ~Exists(pokes, i))
            => pokes' = pokes]_vars

\* C2 (amended): a Delete that returns success leaves every listed id absent
\* from the active collection and every other poke as it was, a missing id
\* being no failure; every other step of a Delete leaves the collection
\* unchanged.  The archive is never touched.
C2_DeleteAllOrNothing ==
    [][\A p \in Procs : Steps(p, "delete") =>
        /\ archive' = archive
        /\ IF ReturnsOK(p)
           THEN /\ \A i \in Range(pr[p].ids) : ~Exists(pokes', i)
                /\ DOMAIN pokes' = DOMAIN pokes \ Range(pr[p].ids)
                /\ \A i \in DOMAIN pokes' : pokes'[i] = pokes[i]
           ELSE pokes' = pokes]_vars

\* Delete(idA, idB) has succeeded and removed idA although idB was missing
C2_Witness ==
    /\ Returned(Main, "delete") /\ pr[Main].err = NoErr
    /\ Len(pr[Main].ids) = 2
    /\ pr[Main].hit = {pr[Main].ids[1]}
    /\ ~Exists(pokes, pr[Main].ids[1])

\* C5: the commit of a successful Archive(id) persists, and returns, the
\* flag expired = (the time read when Archive was called is strictly after the
\* expiry the poke has in the transaction), whatever the clock shows by then.
C5_ExpiredAtArchiveTime ==
    [][\A p \in Procs : (Steps(p, "archive") /\ ReturnsOK(p)) =>
        LET id == pr[p].ids[1] IN
        /\ archive'[id].expired = (pr[p].t > pokes[id].expiry)
        /\ pr'[p].arc[1].Expired = (pr[p].t > pokes[id].expiry)
        /\ pokes[id].expiry < pr[p].t => archive'[id].expired
        /\ pokes[id].expiry >= pr[p].t => ~archive'[id].expired]_vars

\* a poke whose expiry had passed when Archive was called is archived as expired
C5_Witness ==
    /\ Returned(Main, "archive") /\ pr[Main].err = NoErr
    /\ pr[Main].rd[1].expiry < pr[Main].t
    /\ archive[pr[Main].ids[1]].expired

\* C6: no step of an Update creates a poke; an Update of an id that is not in
\* the active collection returns the not-found store error and changes
\* nothing; an Update that succeeds found the id and replaced its whole
\* document, in the step that commits the transaction that read it.
C6_UpdateNeverCreates ==
    [][\A p \in Procs : Steps(p, "update") =>
        LET id == pr[p].ids[1] IN
        /\ DOMAIN pokes' = DOMAIN pokes
        /\ archive' = archive
        /\ (pr[p].pc = "body" /\ ~Exists(pokes, id)) =>
              /\ Returns(p)
              /\ pr'[p].err = StoreErr("notfound", "update", <<id>>)
        /\ IF ReturnsOK(p)
           THEN /\ Exists(pokes, id)
                /\ pr[p].pc = "commit"
                /\ pokes[id] = pr[p].rd[1]
                /\ pokes' = Put(pokes, id, PokeDoc(pr[p].poke[1]))
                /\ pr'[p].out = pr[p].poke
           ELSE pokes' = pokes]_vars

\* an Update of an archived id has failed with not-found
C6_Witness ==
    /\ Returned(Main, "update")
    /\ pr[Main].err.cause = "notfound"
    /\ Exists(archive, pr[Main].ids[1])
    /\ ~Exists(pokes, pr[Main].ids[1])

\* the pokes a list query returned, as a set
Listed(p) == Range(pr[p].out)

\* C10: a ListToSend that succeeds returns at most ListLimit pokes, all of
\* them active pokes with date_to_send strictly before the time of the query,
\* and all of those when there are no more than ListLimit, expired or not.
C10_ListToSendExact ==
    \A p \in Procs : (Returned(p, "listToSend") /\ pr[p].err = NoErr) =>
        LET due == {i \in DOMAIN pokes : pokes[i].date_to_send < pr[p].t} IN
        /\ Len(pr[p].out) <= ListLimit
        /\ Listed(p) \subseteq {PokeOf(i, pokes[i]) : i \in due}
        /\ Cardinality(due) <= ListLimit => Listed(p) = {PokeOf(i, pokes[i]) : i \in due}
        /\ Cardinality(Listed(p)) = Len(pr[p].out)

\* ListToSend returned an expired poke and left out one due at this instant
C10_Witness ==
    /\ Returned(Main, "listToSend") /\ pr[Main].err = NoErr
    /\ \E q \in Listed(Main) : q.Expiry < pr[Main].t
    /\ \E i \in DOMAIN pokes :
        /\ pokes[i].date_to_send = pr[Main].t
        /\ PokeOf(i, pokes[i]) \notin Listed(Main)

\* C11: a ListExpired that succeeds returns at most ListLimit pokes, all of
\* them active pokes with expiry strictly before the time of the query, and all
\* of those when there are no more than ListLimit, whatever their date_to_send;
\* a poke it returns whose date_to_send is still ahead is not selected by the
\* ListToSend query of the same instant, and an Archive called at that instant
\* or later flags it expired.
C11_ListExpiredExact ==
    \A p \in Procs : (Returned(p, "listExpired") /\ pr[p].err = NoErr) =>
        LET t == pr[p].t
            old == {i \in DOMAIN pokes : pokes[i].expiry < t}
        IN  /\ Len(pr[p].out) <= ListLimit
            /\ Listed(p) \subseteq {PokeOf(i, pokes[i]) : i \in old}
            /\ Cardinality(old) <= ListLimit => Listed(p) = {PokeOf(i, pokes[i]) : i \in old}
            /\ Cardinality(Listed(p)) = Len(pr[p].out)
            /\ \A q \in Listed(p) :
                /\ q.DateToSend > t => q \notin Range(PokesOf(ToSendQuery(t)))
                /\ \A u \in Times : u >= t => ArchivedOf(q, u).Expired

\* ListExpired returned a poke whose date_to_send is still ahead, and left out
\* one that expires at this very instant
C11_Witness ==
    /\ Returned(Main, "listExpired") /\ pr[Main].err = NoErr
    /\ \E q \in Listed(Main) : q.DateToSend > pr[Main].t
    /\ \E i \in DOMAIN pokes :
        /\ pokes[i].expiry = pr[Main].t
        /\ PokeOf(i, pokes[i]) \notin Listed(Main)

\* C12 (refuted by the code): the commit of a successful Archive(id) stores the
\* archived poke under id with the tunnel and the recipient of the poke, hands
\* back an ArchivedPoke whose ID is id with the same tunnel and recipient, and
\* leaves no poke id for Get to find.
C12_ArchiveKeepsID ==
    [][\A p \in Procs : (Steps(p, "archive") /\ ReturnsOK(p)) =>
        LET id == pr[p].ids[1] IN
        /\ Exists(archive', id)
        /\ archive'[id].tunnel = pokes[id].tunnel
        /\ archive'[id].to = pokes[id].to
        /\ ~Exists(pokes', id)
        /\ pr'[p].arc[1].Tunnel = pokes[id].tunnel
        /\ pr'[p].arc[1].To = pokes[id].to
        /\ pr'[p].arc[1].ID = id]_vars

\* C13: no step of a Get changes the store.  A Get that returns success
\* returns one poke per listed id, in the order given, each the stored poke
\* with its ID set to that id, and every listed id is in the active collection;
\* a Get that meets an id that is not in the active collection returns at that
\* step with the not-found store error; a Get that returns an error returns no
\* pokes.
C13_GetAllOrNothing ==
    [][\A p \in Procs : Steps(p, "get") =>
        LET ids == pr[p].ids IN
        /\ pokes' = pokes /\ archive' = archive /\ recs' = recs
        /\ (pr[p].pc = "body" /\ ~Exists(pokes, ids[Len(pr[p].out) + 1])) =>
              /\ Returns(p)
              /\ pr'[p].err = StoreErr("notfound", "get", ids)
        /\ Returns(p) =>
              IF pr'[p].err = NoErr
              THEN /\ Len(pr'[p].out) = Len(ids)
                   /\ \A i \in DOMAIN ids :
                        /\ Exists(pokes, ids[i])
                        /\ pr'[p].out[i].ID = ids[i]
                        /\ pr'[p].out[i] = PokeOf(ids[i], pokes[ids[i]])
              ELSE pr'[p].out = <<>>]_vars

\* Get(idA, idB) read idA, found idB missing, and returned the error and no poke
C13_Witness ==
    /\ Returned(Main, "get")
    /\ pr[Main].err.cause = "notfound"
    /\ Len(pr[Main].ids) = 2
    /\ Exists(pokes, pr[Main].ids[1])
    /\ ~Exists(pokes, pr[Main].ids[2])
    /\ pr[Main].out = <<>>

\* C14: at every point of a decorated Send(poke), and when it has returned
\* (with or without an error), the record it holds has the poke's id as its
\* message id, whatever tunnel it wraps and whatever that tunnel met; and every
\* record the decorator persists carries the message id of the poke sent.
C14_MessageIDIsPokeID ==
    /\ [](\A p \in Procs : pr[p].op = "send" =>
            pr[p].rec[1].MessageID = pr[p].poke[1].ID)
    /\ [][\A p \in Procs : Steps(p, "send") =>
            \A d \in recs'[RecordPath] \ recs[RecordPath] :
                d.message_id = pr[p].poke[1].ID]_vars

\* a decorated Send over the email tunnel without a mail client has returned
\* its record, and a record of that poke is persisted
C14_Witness ==
    /\ Returned(Main, "send")
    /\ pr[Main].poke[1].Tunnel = TypeEmail
    /\ pr[Main].werr = <<RawErr("could not get gmail service")>>
    /\ pr[Main].rec[1].MessageID = pr[Main].poke[1].ID
    /\ pr[Main].rec[1].Status = StatusError
    /\ Persisted(pr[Main].poke[1].ID) # {}

\* C18: GMailTunnel.Send returns status Error and an error, without calling
\* the provider, when the mail client is nil; status Error and an error when
\* composing the message fails; status Undelivered and an error when the
\* provider is called and fails; status Delivered and no error when the
\* provider is called and succeeds.  Its error is nil exactly when the status
\* is Delivered.
C18_GMailOutcomeMapping ==
    \A p \in Procs :
        (Returned(p, "tunnelSend") /\ pr[p].poke[1].Tunnel = TypeEmail) =>
            LET e == pr[p].env[1]
                st == pr[p].rec[1].Status
                called == e.compose = "ok" /\ e.svc = "set"
            IN  /\ e.svc = "nil" =>
                    st = StatusError /\ pr[p].err # NoErr /\ pr[p].tried = 0
                /\ e.compose = "err" => st = StatusError /\ pr[p].err # NoErr
                /\ (called /\ e.do # "ok") => st = StatusUndelivered /\ pr[p].err # NoErr
                /\ (called /\ e.do = "ok") => st = StatusDelivered /\ pr[p].err = NoErr
                /\ pr[p].tried = (IF called THEN 1 ELSE 0)
                /\ pr[p].err = NoErr <=> st = StatusDelivered

\* the email tunnel composed the message, had no mail client, and returned
\* Error without a call of the provider
C18_Witness ==
    /\ Returned(Main, "tunnelSend")
    /\ pr[Main].poke[1].Tunnel = TypeEmail
    /\ pr[Main].env[1].compose = "ok"
    /\ pr[Main].env[1].svc = "nil"
    /\ pr[Main].rec[1].Status = StatusError
    /\ pr[Main].tried = 0

\* C3 (refuted by the code): a call of the decorated Send invokes the wrapped
\* tunnel's Send once, however often the transaction is run.
C3_SendInvokedOnce ==
    \A p \in Procs : pr[p].op = "send" =>
        /\ pr[p].sends <= 1
        /\ pr[p].pc = "idle" => pr[p].sends = 1

\* C4 (refuted by the code): when no decorated Send is in flight, every
\* invocation of the wrapped tunnel's Send has its persisted record.
C4_NeverSentUnrecorded ==
    (\A p \in Procs : pr[p].pc = "idle") =>
        \A mid \in DOMAIN sent : sent[mid] <= Cardinality(Persisted(mid))

\* C7 (refuted by the code): every decorated Send of a poke that returns has
\* added one record to what the store's GetRecord finds for that poke's id,
\* and has left the records found before in place.
C7_SendAddsRetrievableRecord ==
    [][\A p \in Procs : (Steps(p, "send") /\ Returns(p)) =>
        LET mid == pr[p].poke[1].ID IN
        /\ RecordQuery(recCol, mid) \subseteq RecordQuery(recCol, mid)'
        /\ Cardinality(RecordQuery(recCol, mid)') =
               Cardinality(RecordQuery(recCol, mid)) + 1]_vars

\* C8 (refuted by the code): a decorated Send whose wrapped Send succeeded
\* returns no error, whether or not the record was persisted.
C8_PersistFailureNotReturned ==
    \A p \in Procs : (Returned(p, "send") /\ pr[p].werr = <<NoErr>>) => pr[p].err = NoErr

\* C9 (refuted by the code): a decorated Send whose wrapped Send returned an
\* error returns an error.
C9_ChannelErrorReturned ==
    \A p \in Procs : (Returned(p, "send") /\ pr[p].werr # <<NoErr>>) => pr[p].err # NoErr

\* C20: no id is in the active and in the archive collection at once; an id
\* that has been handed out and is not in the active collection is not in it
\* after any step either; and an id that a step adds to the active collection
\* is the fresh one Create has just handed out.
C20_NeverInBothNeverBack ==
    /\ [](DOMAIN pokes \cap DOMAIN archive = {})
    /\ [][/\ \A id \in AutoIDs :
               (id <= nextID /\ ~Exists(pokes, id)) => ~Exists(pokes', id)
          /\ \A nid \in DOMAIN pokes' \ DOMAIN pokes :
               /\ nid = nextID + 1
               /\ nextID' = nid
               /\ \E p \in Procs : pr'[p].op = "create" /\ pr'[p].out[1].ID = nid]_vars

\* a Create has succeeded after an earlier poke was archived: its id is a new one
C20_Witness ==
    /\ Returned(Main, "create") /\ pr[Main].err = NoErr
    /\ archive # <<>>
    /\ pr[Main].out[1].ID \in DOMAIN pokes \ DOMAIN archive

\* C17: every step of every operation keeps every persisted record as it is,
\* in every record collection; a step that adds a record adds one, under an
\* auto-id no record had before.  So the records of a poke outlive its archival and
\* its deletion.
C17_RecordsAppendOnly ==
    [][\A c \in RecCols :
        /\ recs[c] \subseteq recs'[c]
        /\ Cardinality(recs'[c] \ recs[c]) <= 1
        /\ \A d \in recs'[c] \ recs[c] :
            /\ d.id \in 1 .. nextRec'
            /\ \A k \in RecCols : \A e \in recs[k] : e.id # d.id]_vars

\* a record of an archived poke and a record of a deleted poke are still there
C17_Witness ==
    \E d, e \in recs[RecordPath] :
        /\ ~Exists(pokes, d.message_id) /\ Exists(archive, d.message_id)
        /\ ~Exists(pokes, e.message_id) /\ ~Exists(archive, e.message_id)

\* p's call of op returns in this step
Completes(p, op) == pr'[p] # pr[p] /\ pr'[p].op = op /\ pr'[p].pc = "idle"

\* C15: neither ListToSend nor a tunnel's Send changes the active or the
\* archive collection, and a ListToSend that succeeds returns every active
\* poke that is due, whether or not another caller has listed or sent it: so
\* nothing keeps two callers from listing and sending the same poke.
C15_NothingClaimsAPoke ==
    [][\A p \in Procs :
        /\ (Completes(p, "listToSend") \/ Completes(p, "tunnelSend")) =>
              pokes' = pokes /\ archive' = archive
        /\ (Completes(p, "listToSend") /\ pr'[p].err = NoErr) =>
              Range(pr'[p].out) =
                  {PokeOf(i, pokes[i]) : i \in {j \in DOMAIN pokes : pokes[j].date_to_send < now}}]_vars

\* both callers have listed the same due poke and have sent it through its
\* tunnel, which called the provider both times, and the poke is not archived
C15_Witness ==
    \E p, q \in Procs :
        /\ p # q
        /\ Returned(p, "tunnelSend") /\ Returned(q, "tunnelSend")
        /\ pr[p].poke = pr[q].poke
        /\ pr[p].tried = 1 /\ pr[q].tried = 1
        /\ pr[p].poke[1].DateToSend < now
        /\ Exists(pokes, pr[p].poke[1].ID)
        /\ ~Exists(archive, pr[p].poke[1].ID)

\* the documents an operation writes as a whole
WholeDocs == {PokeDoc(po) : po \in PokeInputs \cup SendPokes}

\* C16: with Update and Archive racing on the same ids, every poke document is
\* one that a single operation wrote as a whole; the Archive that succeeds
\* archives tunnel, recipient and expired flag of the one document the poke
\* has at the commit, which is the document its transaction read; no step of
\* an Update adds an id to the active collection, an Update that finds the id
\* gone returns not-found, and no Update succeeds on an archived id.
C16_ArchiveSeesWholePoke ==
    /\ [](\A id \in DOMAIN pokes : pokes[id] \in WholeDocs)
    /\ [][\A p \in Procs :
            /\ (Steps(p, "archive") /\ ReturnsOK(p)) =>
                  LET id == pr[p].ids[1] IN
                  /\ pokes[id] = pr[p].rd[1]
                  /\ archive'[id] =
                        [tunnel |-> pokes[id].tunnel, to |-> pokes[id].to,
                         expired |-> pr[p].t > pokes[id].expiry]
            /\ Steps(p, "update") =>
                  LET id == pr[p].ids[1] IN
                  /\ DOMAIN pokes' = DOMAIN pokes
                  /\ (pr[p].pc = "body" /\ ~Exists(pokes, id)) =>
                        Returns(p) /\ pr'[p].err = StoreErr("notfound", "update", <<id>>)
                  /\ ReturnsOK(p) => Exists(pokes, id) /\ ~Exists(archive, id)]_vars

\* an Archive has committed the poke as it was before the Update of another
\* caller, whose transaction has read the poke and is still to commit
C16_Witness ==
    \E p, q \in Procs :
        /\ Returned(p, "archive") /\ pr[p].err = NoErr
        /\ pr[q].op = "update" /\ pr[q].pc = "commit"
        /\ pr[q].ids = pr[p].ids
        /\ pr[q].rd = pr[p].rd
        /\ PokeDoc(pr[q].poke[1]) # pr[q].rd[1]
        /\ archive[pr[p].ids[1]].tunnel = pr[p].rd[1].tunnel

\* C19: two callers never both hold a success of Archive for the same id; the
\* step in which an Archive(id) succeeds finds id active and not archived;
\* every other step of an Archive leaves both collections unchanged; and no
\* step changes or removes an archived poke, its expired flag included.
C19_ArchiveAtMostOnce ==
    /\ [](\A p, q \in Procs :
            (/\ p # q
             /\ Returned(p, "archive") /\ Returned(q, "archive")
             /\ pr[p].ids = pr[q].ids)
                => (pr[p].err # NoErr \/ pr[q].err # NoErr))
    /\ [][/\ \A p \in Procs : Steps(p, "archive") =>
                IF ReturnsOK(p)
                THEN Exists(pokes, pr[p].ids[1]) /\ ~Exists(archive, pr[p].ids[1])
                ELSE pokes' = pokes /\ archive' = archive
          /\ \A id \in DOMAIN archive :
                Exists(archive', id) /\ archive'[id] = archive[id]]_vars

\* one caller's Archive has succeeded while the other's, called at a later
\* time for the same id, has read the poke and cannot commit any more
C19_Witness ==
    \E p, q \in Procs :
        /\ Returned(p, "archive") /\ pr[p].err = NoErr
        /\ pr[q].op = "archive" /\ pr[q].pc = "commit"
        /\ pr[q].ids = pr[p].ids
        /\ pr[q].rd # <<>>
        /\ pr[q].t > pr[p].t
        /\ (pr[q].t > pr[q].rd[1].expiry) # archive[pr[p].ids[1]].expired

=============================================================================
